---- MODULE Spec2Model ----
(***************************************************************************)
(* Model of seller.py: synchronisation of stock levels and prices from a   *)
(* vendor spreadsheet feed into the Ozon seller API.                       *)
(*                                                                         *)
(* Python strings whose characters matter (quantities, prices) are         *)
(* sequences of one-character strings; offer ids, cursors and exception    *)
(* class names are atomic strings.  The feed columns "Код", "Количество"   *)
(* and "Цена" are the record fields Kod, Kolichestvo and Tsena; the        *)
(* Cyrillic letters of "руб." are written r, u, b.                         *)
(***************************************************************************)
EXTENDS Integers, Sequences, FiniteSets, TLC

VARIABLES
    entry,          \* the function that was invoked
    creds,          \* SELLER_TOKEN and CLIENT_ID are both in the environment
    pc,             \* position of the control flow
    last_id,        \* get_offer_ids: local last_id
    product_list,   \* get_offer_ids: local product_list
    total,          \* get_offer_ids: local total
    calls,          \* number of get_product_list calls issued so far
    sent,           \* last_id carried by the latest get_product_list call
    resp,           \* total and last_id of the latest response, if any
    offer_ids,      \* the offer_ids list object (create_stocks mutates it)
    catalog,        \* the offer_ids list as get_offer_ids returned it
    watch_remnants, \* the feed rows
    stocks,         \* list returned by create_stocks
    prices,         \* list returned by create_prices
    divided,        \* value returned by the latest divide call
    stock_calls,    \* payloads of the update_stocks calls that succeeded
    price_calls,    \* payloads of the update_price calls that succeeded
    returned,       \* the functions that have returned normally
    exc,            \* exception raised (None when there is none)
    printed,        \* lines printed by main
    price,          \* argument of a direct price_conversion call
    converted       \* value returned by that call

vars == <<entry, creds, pc, last_id, product_list, total, calls, sent, resp,
          offer_ids, catalog, watch_remnants, stocks, prices, divided,
          stock_calls, price_calls, returned, exc, printed, price, converted>>

None == "None"

\* A Python value that is either None or a list.
NoneValue == [none |-> TRUE]
List(v) == [none |-> FALSE, val |-> v]

-----------------------------------------------------------------------------
(* Bounds of the environment.                                              *)

MaxCalls == 3       \* get_product_list calls in one get_offer_ids run
MaxItems == 3       \* items the endpoint delivers in one get_offer_ids run
MaxTotal == 2       \* "total" reported by a response
MaxFeed == 2        \* rows of a feed handed to a transform
MaxCatalog == 2     \* offer ids handed to a transform
MaxPriceLen == 3    \* characters of a price string

(* Program constants.                                                      *)

STOCK_CHUNK == 100          \* divide(stocks, 100)
PRICE_CHUNK == 1000         \* divide(prices, 1000) in upload_prices
MAIN_PRICE_CHUNK == 900     \* divide(prices, 900) in main
MORE_THAN_TEN == 100        \* stock for the quantity ">10"

-----------------------------------------------------------------------------
(* Sequences.                                                              *)

Range(s) == {s[i] : i \in 1..Len(s)}

SeqsUpTo(S, n) == UNION {[1..k -> S] : k \in 0..n}

Distinct(s) == \A i, j \in 1..Len(s) : i # j => s[i] # s[j]

\* x in lst
In(x, lst) == \E i \in 1..Len(lst) : lst[i] = x

remove_nothing(lst, x) == lst

\* lst.remove(x): drops the first occurrence of x
remove(lst, x) ==
    LET i == CHOOSE k \in 1..Len(lst) :
                 lst[k] = x /\ \A j \in 1..(k - 1) : lst[j] # x
    IN  SubSeq(lst, 1, i - 1) \o SubSeq(lst, i + 1, Len(lst))

-----------------------------------------------------------------------------
(* Strings.                                                                *)

Digits == {"0", "1", "2", "3", "4", "5", "6", "7", "8", "9"}

DigitValue(c) ==
    CASE c = "0" -> 0 [] c = "1" -> 1 [] c = "2" -> 2 [] c = "3" -> 3
      [] c = "4" -> 4 [] c = "5" -> 5 [] c = "6" -> 6 [] c = "7" -> 7
      [] c = "8" -> 8 [] c = "9" -> 9

RECURSIVE DecimalValue(_)
DecimalValue(s) ==
    IF s = <<>> THEN 0
    ELSE 10 * DecimalValue(SubSeq(s, 1, Len(s) - 1)) + DigitValue(s[Len(s)])

\* int(s) accepts an optional sign followed by decimal digits and raises
\* ValueError on the other strings of the model.
int_raises(s) ==
    LET signed == s # <<>> /\ s[1] \in {"-", "+"}
        body == IF signed THEN Tail(s) ELSE s
    IN  body = <<>> \/ \E i \in 1..Len(body) : body[i] \notin Digits

int(s) ==
    LET signed == s # <<>> /\ s[1] \in {"-", "+"}
        body == IF signed THEN Tail(s) ELSE s
    IN  IF signed /\ s[1] = "-" THEN 0 - DecimalValue(body)
        ELSE DecimalValue(body)

\* s.split(sep)[0]: the characters before the first sep
RECURSIVE split0(_, _)
split0(s, sep) ==
    IF s = <<>> \/ Head(s) = sep THEN <<>>
    ELSE <<Head(s)>> \o split0(Tail(s), sep)

\* re.sub("[^0-9]", "", s)
RECURSIVE re_sub_non_digits(_)
re_sub_non_digits(s) ==
    IF s = <<>> THEN <<>>
    ELSE IF Head(s) \in Digits THEN <<Head(s)>> \o re_sub_non_digits(Tail(s))
    ELSE re_sub_non_digits(Tail(s))

price_conversion_keeps_fraction(p) == re_sub_non_digits(p)

price_conversion(p) == re_sub_non_digits(split0(p, "."))

-----------------------------------------------------------------------------
(* The transforms.                                                         *)

GT10 == <<">", "1", "0">>
ONE == <<"1">>

\* create_stocks, lines 201-206; int_raises tells when line 206 raises
stock_of_keeps_one(count) ==
    IF count = GT10 THEN MORE_THAN_TEN ELSE int(count)

stock_of(count) ==
    IF count = GT10 THEN MORE_THAN_TEN
    ELSE IF count = ONE THEN 0
    ELSE int(count)

stock_raises(count) == count # GT10 /\ count # ONE /\ int_raises(count)

\* the unmatched offer ids, lines 209-210
zero_fill(ids) == [i \in 1..Len(ids) |-> [offer_id |-> ids[i], stock |-> 0]]

\* the first loop of create_stocks, from row i on, lines 198-208
RECURSIVE stocks_loop(_, _, _, _)
stocks_loop(rows, i, acc, ids) ==
    IF i > Len(rows) THEN [stocks |-> acc, offer_ids |-> ids, exc |-> None]
    ELSE LET watch == rows[i] IN
         IF In(watch.Kod, ids)
         THEN IF stock_raises(watch.Kolichestvo)
              THEN [stocks |-> acc, offer_ids |-> ids, exc |-> "ValueError"]
              ELSE stocks_loop(rows, i + 1,
                       Append(acc, [offer_id |-> watch.Kod,
                                    stock |-> stock_of(watch.Kolichestvo)]),
                       remove(ids, watch.Kod))
         ELSE stocks_loop(rows, i + 1, acc, ids)

\* create_stocks: the list it returns, the offer_ids list as it leaves it, and
\* the exception it raises
create_stocks(rows, ids) ==
    LET r == stocks_loop(rows, 1, <<>>, ids)
    IN  IF r.exc # None THEN r
        ELSE [r EXCEPT !.stocks = r.stocks \o zero_fill(r.offer_ids)]

price_record(watch) ==
    [auto_action_enabled |-> "UNKNOWN",
     currency_code |-> "RUB",
     offer_id |-> watch.Kod,
     old_price |-> "0",
     price |-> price_conversion(watch.Tsena)]

create_prices_all_rows(rows, ids) == [i \in 1..Len(rows) |-> price_record(rows[i])]

RECURSIVE create_prices(_, _)
create_prices(rows, ids) ==
    IF rows = <<>> THEN <<>>
    ELSE IF In(Head(rows).Kod, ids)
         THEN <<price_record(Head(rows))>> \o create_prices(Tail(rows), ids)
         ELSE create_prices(Tail(rows), ids)

\* divide has a docstring and no statement: a call returns None
divide(lst, n) == NoneValue

-----------------------------------------------------------------------------
(* The environment: what the marketplace, the vendor and a caller supply.  *)

OfferIds == {"a", "b"}
Codes == OfferIds \cup {"x"}           \* "x" is a code the catalog lacks
Products == [offer_id : OfferIds]
Cursors == {"p1", "p2"}

\* "5'990.00 руб.", "1.250,50 USD" and "€ 1234.56" (E for the euro sign)
RUB_5990 == <<"5", "'", "9", "9", "0", ".", "0", "0", " ", "r", "u", "b", ".">>
USD_1250 == <<"1", ".", "2", "5", "0", ",", "5", "0", " ", "U", "S", "D">>
EUR_1234 == <<"E", " ", "1", "2", "3", "4", ".", "5", "6">>

PriceAlphabet == {"5", "0", ".", "'", "r"}
PriceStrings ==
    SeqsUpTo(PriceAlphabet, MaxPriceLen) \cup {RUB_5990, USD_1250, EUR_1234}

Quantities == {GT10, ONE, <<"0">>, <<"2">>, <<"1", "0">>, <<"-", "5">>, <<>>}

StockFeeds ==
    SeqsUpTo([Kod : Codes, Kolichestvo : Quantities, Tsena : {RUB_5990}], MaxFeed)
PriceFeeds ==
    SeqsUpTo([Kod : Codes, Kolichestvo : {ONE},
              Tsena : {RUB_5990, USD_1250, <<"7", "5">>}], MaxFeed)
Catalogs == SeqsUpTo(OfferIds, MaxCatalog)

Row(kod, kolichestvo, tsena) ==
    [Kod |-> kod, Kolichestvo |-> kolichestvo, Tsena |-> tsena]

\* feeds of a whole run
RunFeeds ==
    { <<>>,
      <<Row("a", GT10, RUB_5990)>>,
      <<Row("b", <<"2">>, USD_1250), Row("x", ONE, RUB_5990)>>,
      <<Row("a", ONE, RUB_5990), Row("b", <<"-", "5">>, EUR_1234)>>,
      <<Row("b", <<>>, RUB_5990)>> }

\* requests.post / session.get and raise_for_status
NetworkErrors == {"ReadTimeout", "ConnectionError", "ConnectTimeout", "HTTPError"}

-----------------------------------------------------------------------------
(* Control flow.                                                           *)

Entries == {"main", "upload_stocks", "upload_prices", "get_offer_ids",
            "create_stocks", "create_prices", "price_conversion"}

First(e) ==
    CASE e = "main" -> "env"
      [] e \in {"upload_stocks", "upload_prices"} -> "get_offer_ids"
      [] OTHER -> e

\* the statement that follows statement s of entry point e
After(e, s) ==
    CASE e = "main" /\ s = "env" -> "get_offer_ids"
      [] e = "main" /\ s = "get_offer_ids" -> "download_stock"
      [] e = "main" /\ s = "download_stock" -> "create_stocks"
      [] e = "main" /\ s = "create_stocks" -> "for_some_stock"
      [] e = "main" /\ s = "for_some_stock" -> "create_prices"
      [] e = "main" /\ s = "create_prices" -> "for_some_price"
      [] e = "upload_stocks" /\ s = "get_offer_ids" -> "create_stocks"
      [] e = "upload_stocks" /\ s = "create_stocks" -> "for_some_stock"
      [] e = "upload_prices" /\ s = "get_offer_ids" -> "create_prices"
      [] e = "upload_prices" /\ s = "create_prices" -> "for_some_price"
      [] OTHER -> "return"

\* main's try statement: the except clause (1, 2, 3) that catches an
\* exception of class kind, 0 when none does
except_clause_no_catch_all(kind) ==
    IF kind = "ReadTimeout" THEN 1
    ELSE IF kind \in {"ConnectionError", "ConnectTimeout"} THEN 2
    ELSE 0

except_clause(kind) ==
    IF kind = "ReadTimeout" THEN 1
    ELSE IF kind \in {"ConnectionError", "ConnectTimeout"} THEN 2
    ELSE 3

\* what the clause prints
message(clause, kind) ==
    CASE clause = 1 -> <<"Prevysheno vremya ozhidaniya...">>
      [] clause = 2 -> <<kind, "Oshibka soedineniya">>
      [] clause = 3 -> <<kind, "ERROR_2">>

\* line 78
loop_break_at_least(t, n) == t <= n

loop_break(t, n) == t = n

Init ==
    /\ entry \in Entries
    /\ creds \in (IF entry = "main" THEN BOOLEAN ELSE {TRUE})
    /\ pc = First(entry)
    /\ last_id = ""
    /\ product_list = <<>>
    /\ total = 0
    /\ calls = 0
    /\ sent = ""
    /\ resp = <<>>
    /\ offer_ids \in (IF entry \in {"create_stocks", "create_prices"}
                      THEN Catalogs ELSE {<<>>})
    /\ catalog = offer_ids
    /\ watch_remnants \in
          (CASE entry = "create_stocks" -> StockFeeds
             [] entry = "create_prices" -> PriceFeeds
             [] entry \in {"upload_stocks", "upload_prices"} -> RunFeeds
             [] OTHER -> {<<>>})
    /\ stocks = <<>>
    /\ prices = <<>>
    /\ divided = NoneValue
    /\ stock_calls = <<>>
    /\ price_calls = <<>>
    /\ returned = {}
    /\ exc = None
    /\ printed = <<>>
    /\ price \in (IF entry = "price_conversion" THEN PriceStrings ELSE {<<>>})
    /\ converted = <<>>

-----------------------------------------------------------------------------
(* The statements.                                                         *)

fetchVars == <<last_id, product_list, total, calls, sent, resp>>
uploadVars == <<divided, stock_calls, price_calls>>
convVars == <<price, converted>>

\* an exception of class kind leaves the current statement: inside main's try
\* block it reaches the except clauses, elsewhere it propagates to the caller
Raise(kind) ==
    /\ exc' = kind
    /\ pc' = IF entry = "main" /\ pc # "env" THEN "except" ELSE "raised"

Return(s) ==
    /\ returned' = returned \cup {s}
    /\ pc' = After(entry, s)

\* main, lines 311-313: env.str raises when a variable is missing, before the
\* try block is entered
MainEnv ==
    /\ pc = "env"
    /\ IF creds THEN Return("env") /\ exc' = exc
                ELSE Raise("EnvError") /\ returned' = returned
    /\ UNCHANGED <<entry, creds, fetchVars, offer_ids, catalog, watch_remnants,
                   stocks, prices, uploadVars, printed, convVars>>

\* get_offer_ids: one turn of the while loop whose get_product_list call
\* answers; the turn that breaks also builds and returns offer_ids
GetProductList ==
    /\ pc = "get_offer_ids"
    /\ calls < MaxCalls
    /\ \E items \in SeqsUpTo(Products, MaxItems - Len(product_list)),
          t \in 0..MaxTotal, lid \in Cursors :
          /\ calls' = calls + 1
          /\ sent' = last_id
          /\ resp' = <<[total |-> t, last_id |-> lid]>>
          /\ product_list' = product_list \o items
          /\ total' = t
          /\ last_id' = lid
          /\ IF loop_break(t, Len(product_list'))
             THEN /\ offer_ids' = [i \in 1..Len(product_list') |->
                                      product_list'[i].offer_id]
                  /\ catalog' = offer_ids'
                  /\ Return("get_offer_ids")
             ELSE UNCHANGED <<offer_ids, catalog, returned, pc>>
    /\ UNCHANGED <<entry, creds, watch_remnants, stocks, prices, uploadVars,
                   exc, printed, convVars>>

\* get_offer_ids: the get_product_list call raises (lines 46-47)
GetProductListFails ==
    /\ pc = "get_offer_ids"
    /\ calls < MaxCalls
    /\ calls' = calls + 1
    /\ sent' = last_id
    /\ \E kind \in NetworkErrors : Raise(kind)
    /\ UNCHANGED <<entry, creds, last_id, product_list, total, resp, offer_ids,
                   catalog, watch_remnants, stocks, prices, uploadVars,
                   returned, printed, convVars>>

\* download_stock returns the rows of the spreadsheet
DownloadStock ==
    /\ pc = "download_stock"
    /\ watch_remnants' \in RunFeeds
    /\ Return("download_stock")
    /\ UNCHANGED <<entry, creds, fetchVars, offer_ids, catalog, stocks, prices,
                   uploadVars, exc, printed, convVars>>

\* download_stock raises: the request (lines 163-164) or the archive (165)
DownloadStockFails ==
    /\ pc = "download_stock"
    /\ \E kind \in NetworkErrors \cup {"BadZipFile"} : Raise(kind)
    /\ UNCHANGED <<entry, creds, fetchVars, offer_ids, catalog, watch_remnants,
                   stocks, prices, uploadVars, returned, printed, convVars>>

\* stocks = create_stocks(watch_remnants, offer_ids)
CreateStocks ==
    /\ pc = "create_stocks"
    /\ LET r == create_stocks(watch_remnants, offer_ids) IN
          /\ offer_ids' = r.offer_ids
          /\ IF r.exc = None
             THEN stocks' = r.stocks /\ Return("create_stocks") /\ exc' = exc
             ELSE Raise(r.exc) /\ UNCHANGED <<stocks, returned>>
    /\ UNCHANGED <<entry, creds, fetchVars, catalog, watch_remnants, prices,
                   uploadVars, printed, convVars>>

\* prices = create_prices(watch_remnants, offer_ids)
CreatePrices ==
    /\ pc = "create_prices"
    /\ prices' = create_prices(watch_remnants, offer_ids)
    /\ Return("create_prices")
    /\ UNCHANGED <<entry, creds, fetchVars, offer_ids, catalog, watch_remnants,
                   stocks, uploadVars, exc, printed, convVars>>

\* for chunk in list(divide(lst, n)): update(chunk), where update raises on a
\* failed request.  list(None) raises TypeError.  log is the list of payloads
\* already sent, s the statement.
ForChunks(lst, n, log, s) ==
    LET d == divide(lst, n) IN
    /\ divided' = d
    /\ IF d.none
       THEN log' = log /\ Raise("TypeError") /\ returned' = returned
       ELSE \E k \in 0..Len(d.val) :
              /\ log' = log \o SubSeq(d.val, 1, k)
              /\ IF k = Len(d.val)
                 THEN Return(s) /\ exc' = exc
                 ELSE /\ returned' = returned
                      /\ \E kind \in NetworkErrors : Raise(kind)

\* lines 304-305 and 319-320
ForSomeStock ==
    /\ pc = "for_some_stock"
    /\ ForChunks(stocks, STOCK_CHUNK, stock_calls, "for_some_stock")
    /\ UNCHANGED <<entry, creds, fetchVars, offer_ids, catalog, watch_remnants,
                   stocks, prices, price_calls, printed, convVars>>

\* lines 296-297 and 323-324
ForSomePrice ==
    /\ pc = "for_some_price"
    /\ ForChunks(prices,
                 IF entry = "main" THEN MAIN_PRICE_CHUNK ELSE PRICE_CHUNK,
                 price_calls, "for_some_price")
    /\ UNCHANGED <<entry, creds, fetchVars, offer_ids, catalog, watch_remnants,
                   stocks, prices, stock_calls, printed, convVars>>

\* main, lines 325-330
Except ==
    /\ pc = "except"
    /\ LET clause == except_clause(exc) IN
          IF clause = 0
          THEN pc' = "raised" /\ printed' = printed
          ELSE pc' = "return" /\ printed' = Append(printed, message(clause, exc))
    /\ UNCHANGED <<entry, creds, fetchVars, offer_ids, catalog, watch_remnants,
                   stocks, prices, uploadVars, returned, exc, convVars>>

\* a direct call price_conversion(price)
PriceConversion ==
    /\ pc = "price_conversion"
    /\ converted' = price_conversion(price)
    /\ Return("price_conversion")
    /\ UNCHANGED <<entry, creds, fetchVars, offer_ids, catalog, watch_remnants,
                   stocks, prices, uploadVars, exc, printed, price>>

Next ==
    \/ MainEnv
    \/ GetProductList
    \/ GetProductListFails
    \/ DownloadStock
    \/ DownloadStockFails
    \/ CreateStocks
    \/ CreatePrices
    \/ ForSomeStock
    \/ ForSomePrice
    \/ Except
    \/ PriceConversion

Spec == Init /\ [][Next]_vars

-----------------------------------------------------------------------------
(* Properties of create_stocks.                                            *)

\* the stock the specification gives for a quantity string
ExpectedStock(q) ==
    CASE q = GT10 -> 100
      [] q = ONE -> 0
      [] q = <<"0">> -> 0
      [] q = <<"2">> -> 2
      [] q = <<"1", "0">> -> 10
      [] q = <<"-", "5">> -> 0 - 5

InFeed(id) == \E i \in 1..Len(watch_remnants) : watch_remnants[i].Kod = id

FirstRow(id) ==
    watch_remnants[CHOOSE i \in 1..Len(watch_remnants) :
        /\ watch_remnants[i].Kod = id
        /\ \A j \in 1..(i - 1) : watch_remnants[j].Kod # id]

\* row i meets a catalog offer id that no earlier row has used up
MeetsUnmatched(i) ==
    Cardinality({j \in 1..(i - 1) : watch_remnants[j].Kod = watch_remnants[i].Kod})
        < Cardinality({k \in 1..Len(catalog) : catalog[k] = watch_remnants[i].Kod})

MatchedRows ==
    SelectSeq([i \in 1..Len(watch_remnants) |-> i], LAMBDA i : MeetsUnmatched(i))

\* C1: for a catalog of pairwise distinct offer ids, the list create_stocks
\* returns holds exactly one record per catalog offer id and none for another
\* id; a matched id carries the stock of its first feed row, an unmatched id
\* carries 0.
C1_OneStockPerOfferId ==
    ("create_stocks" \in returned /\ Distinct(catalog)) =>
        /\ \A id \in Range(catalog) :
              Cardinality({k \in 1..Len(stocks) : stocks[k].offer_id = id}) = 1
        /\ \A k \in 1..Len(stocks) :
              /\ stocks[k].offer_id \in Range(catalog)
              /\ stocks[k].stock =
                    IF InFeed(stocks[k].offer_id)
                    THEN ExpectedStock(FirstRow(stocks[k].offer_id).Kolichestvo)
                    ELSE 0

\* a feed that repeats a catalog code, and a catalog id the feed lacks
C1_Witness ==
    /\ "create_stocks" \in returned
    /\ Distinct(catalog)
    /\ \E i, j \in 1..Len(watch_remnants) :
          /\ i < j
          /\ watch_remnants[i].Kod = watch_remnants[j].Kod
          /\ watch_remnants[i].Kolichestvo # watch_remnants[j].Kolichestvo
          /\ In(watch_remnants[i].Kod, catalog)
    /\ \E id \in Range(catalog) : ~InFeed(id)

\* C3: the k-th record of create_stocks comes from the k-th feed row whose
\* code meets a still unmatched catalog offer id, and its stock is 100 for
\* ">10", 0 for "1" and the integer value of the quantity otherwise.
C3_StockRule ==
    "create_stocks" \in returned =>
        /\ Len(stocks) >= Len(MatchedRows)
        /\ \A k \in 1..Len(MatchedRows) :
              LET watch == watch_remnants[MatchedRows[k]] IN
              /\ stocks[k].offer_id = watch.Kod
              /\ stocks[k].stock = ExpectedStock(watch.Kolichestvo)

\* matched rows with the quantities ">10" and "1"
C3_Witness ==
    /\ "create_stocks" \in returned
    /\ \E k, l \in 1..Len(MatchedRows) :
          /\ watch_remnants[MatchedRows[k]].Kolichestvo = GT10
          /\ watch_remnants[MatchedRows[l]].Kolichestvo = ONE

\* C7: every record create_stocks returns has a stock >= 0.
C7_StockNotNegative ==
    "create_stocks" \in returned =>
        \A k \in 1..Len(stocks) : stocks[k].stock >= 0

-----------------------------------------------------------------------------
(* Properties of create_prices and price_conversion.                       *)

InCatalogRows ==
    SelectSeq(watch_remnants, LAMBDA w : w.Kod \in Range(offer_ids))

BeforeFirstDot(s) ==
    IF \E i \in 1..Len(s) : s[i] = "."
    THEN SubSeq(s, 1, (CHOOSE i \in 1..Len(s) :
                          s[i] = "." /\ \A j \in 1..(i - 1) : s[j] # ".") - 1)
    ELSE s

-----------------------------------------------------------------------------
(* Properties of divide and of the batch upload.                           *)

Min(a, b) == IF a < b THEN a ELSE b

\* consecutive chunks of n elements, the last one of 1..n elements
RECURSIVE Chunks(_, _)
Chunks(lst, n) ==
    IF lst = <<>> THEN <<>>
    ELSE <<SubSeq(lst, 1, Min(n, Len(lst)))>>
             \o Chunks(SubSeq(lst, Min(n, Len(lst)) + 1, Len(lst)), n)

\* the for statement over the chunks of the stocks (of the prices) is over
StocksLoopOver ==
    /\ entry \in {"main", "upload_stocks"}
    /\ "create_stocks" \in returned
    /\ pc # "for_some_stock"

PricesLoopOver ==
    /\ entry \in {"main", "upload_prices"}
    /\ "create_prices" \in returned
    /\ pc # "for_some_price"

\* C5: divide(lst, n) yields the consecutive chunks of lst, n elements each but
\* for a last one of 1..n elements; divide([1, 2, 3, 4], 2) is [[1, 2], [3, 4]].
C5_DivideYieldsChunks ==
    /\ StocksLoopOver =>
          /\ divided = List(Chunks(stocks, STOCK_CHUNK))
          /\ divide(<<1, 2, 3, 4>>, 2) = List(<<<<1, 2>>, <<3, 4>>>>)
    /\ (PricesLoopOver /\ entry = "upload_prices") =>
           divided = List(Chunks(prices, PRICE_CHUNK))

\* C9: the batch upload issues one update call per chunk, in order, each with
\* that chunk's records (stocks by 100, prices by 1000); a failed call ends it
\* with the earlier chunks applied and nothing after them.
C9_OneCallPerChunk ==
    /\ StocksLoopOver =>
          /\ \E k \in 0..Len(Chunks(stocks, STOCK_CHUNK)) :
                stock_calls = SubSeq(Chunks(stocks, STOCK_CHUNK), 1, k)
          /\ exc \notin NetworkErrors =>
                stock_calls = Chunks(stocks, STOCK_CHUNK)
    /\ PricesLoopOver =>
          /\ \E k \in 0..Len(Chunks(prices, PRICE_CHUNK)) :
                price_calls = SubSeq(Chunks(prices, PRICE_CHUNK), 1, k)
          /\ exc \notin NetworkErrors =>
                price_calls = Chunks(prices, PRICE_CHUNK)

-----------------------------------------------------------------------------
(* Properties of get_offer_ids.                                            *)

\* the loop has stopped exactly if the latest response reports the
\* accumulated count, and then one offer id per accumulated item is returned
C6_StopsAtTotal ==
    /\ resp # <<>> =>
          ("get_offer_ids" \in returned <=> resp[1].total = Len(product_list))
    /\ "get_offer_ids" \in returned =>
          /\ resp # <<>>
          /\ Len(catalog) = Len(product_list)
          /\ \A i \in 1..Len(catalog) : catalog[i] = product_list[i].offer_id

\* a call carries the empty cursor when it is the first and the last_id of the
\* previous response otherwise; no call follows a response whose total is the
\* accumulated count
C6_Calls ==
    /\ calls' # calls =>
          sent' = IF calls = 0 THEN "" ELSE resp[1].last_id
    /\ (resp # <<>> /\ resp[1].total = Len(product_list)) => calls' = calls

\* C6: the loop of get_offer_ids stops exactly when the accumulated item count
\* equals the total of the latest response, issues no call after that
\* response, returns one offer id per accumulated item, and sends the empty
\* cursor first and then the last_id of the previous response.
C6_Pagination == []C6_StopsAtTotal /\ [][C6_Calls]_vars

\* get_offer_ids returned after a second page
C6_Witness ==
    /\ "get_offer_ids" \in returned
    /\ calls >= 2
    /\ sent \in Cursors
    /\ Len(catalog) >= 2

-----------------------------------------------------------------------------
(* Properties of main.                                                     *)

\* C8: in main the offer id list the price transform matches against is the
\* catalog as fetched, whatever the stock transform did before, and main
\* uploads the price records of the feed rows whose code is in that catalog.
C8_PriceFlowSeesFullCatalog ==
    (entry = "main" /\ "create_stocks" \in returned) =>
        /\ offer_ids = catalog
        /\ (pc = "return" /\ exc \notin NetworkErrors) =>
              \A i \in 1..Len(watch_remnants) :
                  In(watch_remnants[i].Kod, catalog) =>
                      \E c \in 1..Len(price_calls) :
                          \E k \in 1..Len(price_calls[c]) :
                              price_calls[c][k].offer_id = watch_remnants[i].Kod

\* the line main prints for an error of class kind
ExpectedLine(kind) ==
    CASE kind = "ReadTimeout" -> <<"Prevysheno vremya ozhidaniya...">>
      [] kind \in {"ConnectionError", "ConnectTimeout"} ->
             <<kind, "Oshibka soedineniya">>
      [] OTHER -> <<kind, "ERROR_2">>

\* with the credentials present no error leaves main, and main ends a failed
\* run having printed the one line of the error's kind
C10_ErrorsStayInMain ==
    (entry = "main" /\ creds) =>
        /\ pc # "raised"
        /\ exc = None => printed = <<>>
        /\ Len(printed) <= 1
        /\ (pc = "return" /\ exc # None) => printed = <<ExpectedLine(exc)>>

\* after the failure no step of main runs: nothing is fetched, transformed,
\* sent again or taken back
C10_NothingAfterFailure ==
    (entry = "main" /\ exc # None) =>
        UNCHANGED <<calls, offer_ids, watch_remnants, stocks, prices,
                    stock_calls, price_calls, returned, exc>>

\* C10: with both credentials present main lets no error escape: it stops at
\* the failing step, runs no later step, prints exactly one line chosen by the
\* error's kind and returns, with no retry and no undoing.
C10_MainCatchesEverything ==
    []C10_ErrorsStayInMain /\ [][C10_NothingAfterFailure]_vars

\* main returned after download_stock timed out
C10_Witness ==
    /\ entry = "main"
    /\ creds
    /\ pc = "return"
    /\ "get_offer_ids" \in returned
    /\ "download_stock" \notin returned
    /\ exc = "ReadTimeout"
    /\ printed = <<ExpectedLine("ReadTimeout")>>

====
